---- MODULE Spec2Model ----
(***************************************************************************)
(* Model of scripts/linkify_inventory.py: the inventory linker.            *)
(*                                                                         *)
(* A text line is a sequence of characters; a character is a one-character *)
(* string, except the em dash U+2014, which is written EM.  The script is  *)
(* a straight-line program: read the document, one loop iteration per      *)
(* line, open the document for writing (which truncates it), write the     *)
(* lines, print the completion message.  os.path is taken as posixpath:    *)
(* "/" is the separator and a component that starts with "/" restarts the  *)
(* path.  The filesystem under test is static; what os.path.exists answers *)
(* for a path is fixed by the first check of that path (fs_present,        *)
(* fs_absent).                                                             *)
(***************************************************************************)
EXTENDS Integers, Sequences, FiniteSets, TLC

\* ------------------------------------------------------------------ bounds
\* Longest document, in lines.
MaxLines == 3
\* Deepest indentation of a generated line, in spaces.
MaxIndent == 2

\* -------------------------------------------------------------- characters
EM == "EM"
NL == "\n"
Whitespace == {" ", NL}

Min(S) == CHOOSE x \in S : \A y \in S : x <= y
Max(S) == CHOOSE x \in S : \A y \in S : x >= y

\* str.lstrip(): drop the leading whitespace.
LStrip(s) ==
  LET keep == {k \in 1..Len(s) : s[k] \notin Whitespace}
  IN  IF keep = {} THEN <<>> ELSE SubSeq(s, Min(keep), Len(s))

\* str.strip(): drop leading and trailing whitespace.
Strip(s) ==
  LET keep == {k \in 1..Len(s) : s[k] \notin Whitespace}
  IN  IF keep = {} THEN <<>> ELSE SubSeq(s, Min(keep), Max(keep))

\* indent = len(line) - len(line.lstrip())
Indent(line) == Len(line) - Len(LStrip(line))

\* str.rstrip('/')
RStripSlash(s) ==
  LET keep == {k \in 1..Len(s) : s[k] # "/"}
  IN  IF keep = {} THEN <<>> ELSE SubSeq(s, 1, Max(keep))

\* Last index of the longest run of whitespace (of non-whitespace, of
\* non-star) characters that starts at index k, k - 1 when the run is
\* empty: what a greedy \s+, [^\s]+ or [^\*]+ consumes from k.
RunEndWS(t, k) ==
  LET stop == {j \in k..Len(t) : t[j] \notin Whitespace}
  IN  IF stop = {} THEN Len(t) ELSE Min(stop) - 1
RunEndNonWS(t, k) ==
  LET stop == {j \in k..Len(t) : t[j] \in Whitespace}
  IN  IF stop = {} THEN Len(t) ELSE Min(stop) - 1
RunEndNonStar(t, k) ==
  LET stop == {j \in k..Len(t) : t[j] = "*"}
  IN  IF stop = {} THEN Len(t) ELSE Min(stop) - 1

At(t, k) == IF k \in 1..Len(t) THEN t[k] ELSE "EOF"

NoMatch == [ok |-> FALSE, group1 |-> <<>>]

\* re.match(r'^-\s+\*\*([^\*]+)/?\*\*', stripped).  [^\*]+ is greedy and
\* may hold "/" itself, so group 1 is the whole run of non-star characters
\* and "/?" matches the empty string; the match exists exactly when that
\* run is followed by "**".
dir_match(t) ==
  LET e1 == RunEndWS(t, 2)
      g  == e1 + 3
      e2 == RunEndNonStar(t, g)
  IN  IF /\ At(t, 1) = "-"
         /\ e1 >= 2
         /\ At(t, e1 + 1) = "*" /\ At(t, e1 + 2) = "*"
         /\ e2 >= g
         /\ At(t, e2 + 1) = "*" /\ At(t, e2 + 2) = "*"
      THEN [ok |-> TRUE, group1 |-> SubSeq(t, g, e2)]
      ELSE NoMatch

\* re.match(r'^-\s+([^\s]+)\s+EM', stripped): group 1 is the maximal run of
\* non-whitespace characters after the bullet marker and its whitespace.
file_match(t) ==
  LET e1 == RunEndWS(t, 2)
      e2 == RunEndNonWS(t, e1 + 1)
      e3 == RunEndWS(t, e2 + 1)
  IN  IF /\ At(t, 1) = "-"
         /\ e1 >= 2
         /\ e2 >= e1 + 1
         /\ e3 >= e2 + 1
         /\ At(t, e3 + 1) = EM
      THEN [ok |-> TRUE, group1 |-> SubSeq(t, e1 + 1, e2)]
      ELSE NoMatch

\* The branch the loop body takes for a line: the directory pattern is
\* tried first, the file pattern only when it fails.  (LineClassFileFirst
\* is the faulty variant that tries the file pattern first.)
LineClassFileFirst(line) ==
  IF file_match(Strip(line)).ok THEN "file"
  ELSE IF dir_match(Strip(line)).ok THEN "dir"
  ELSE "other"
LineClass(line) ==
  IF dir_match(Strip(line)).ok THEN "dir"
  ELSE IF file_match(Strip(line)).ok THEN "file"
  ELSE "other"

\* while dir_stack and dir_stack[-1][0] >= indent: dir_stack.pop()
\* The number of entries left: the loop stops at the first entry from the
\* top whose indent level is below indent.  (KeepStrict and KeepOffByOne
\* are the faulty variants that pop on ">" and on ">= indent - 1".)
KeepStrict(stack, indent) ==
  Max({0} \cup {k \in 1..Len(stack) : stack[k][1] <= indent})
KeepOffByOne(stack, indent) ==
  Max({0} \cup {k \in 1..Len(stack) : stack[k][1] < indent - 1})
Keep(stack, indent) ==
  Max({0} \cup {k \in 1..Len(stack) : stack[k][1] < indent})

\* posixpath.join(a, *ps)
RECURSIVE PathJoin(_, _)
PathJoin(a, ps) ==
  IF ps = <<>> THEN a
  ELSE LET b == Head(ps)
           ab == IF b # <<>> /\ b[1] = "/" THEN b
                 ELSE IF a = <<>> \/ a[Len(a)] = "/" THEN a \o b
                 ELSE a \o <<"/">> \o b
       IN  PathJoin(ab, Tail(ps))

\* str.replace('\\', '/')
ForwardSlashes(s) == [k \in 1..Len(s) |-> IF s[k] = "\\" THEN "/" ELSE s[k]]

\* str.find(sub): 0-based index of the first occurrence, -1 when absent.
\* (FindLast is the faulty variant str.rfind.)
FindLast(s, sub) ==
  LET hits == {k \in 0..(Len(s) - Len(sub)) : SubSeq(s, k + 1, k + Len(sub)) = sub}
  IN  IF hits = {} THEN -1 ELSE Max(hits)
Find(s, sub) ==
  LET hits == {k \in 0..(Len(s) - Len(sub)) : SubSeq(s, k + 1, k + Len(sub)) = sub}
  IN  IF hits = {} THEN -1 ELSE Min(hits)

\* A slice bound k of a string of length n, as Python clamps it.
SliceBound(k, n) == IF k < 0 THEN Max({0, n + k}) ELSE Min({k, n})
\* s[:k] and s[k:]
SliceTo(s, k) == SubSeq(s, 1, SliceBound(k, Len(s)))
SliceFrom(s, k) == SubSeq(s, SliceBound(k, Len(s)) + 1, Len(s))

root_dir == <<"R">>

\* current_path_parts = [item[1] for item in dir_stack]
PathParts(stack) == [k \in 1..Len(stack) |-> stack[k][2]]

\* relative_path = os.path.join(*current_path_parts, filename)
RelativePath(stack, filename) ==
  LET args == PathParts(stack) \o <<filename>>
  IN  PathJoin(Head(args), Tail(args))

\* full_path = os.path.join(root_dir, relative_path)
FullPath(stack, filename) == PathJoin(root_dir, <<RelativePath(stack, filename)>>)

\* new_line = f"{prefix}[{filename}]({rel_path_fwd}){suffix}"
NewLine(line, filename, relative_path) ==
  LET at     == Find(line, filename)
      prefix == SliceTo(line, at)
      suffix == SliceFrom(line, at + Len(filename))
  IN  prefix \o <<"[">> \o filename \o <<"]", "(">>
        \o ForwardSlashes(relative_path) \o <<")">> \o suffix

\* The line appended when the candidate does not exist: original_line.
\* (KeptLineStripped is the faulty variant that appends stripped.)
KeptLineStripped(line) == Strip(line)
KeptLine(line) == line

\* What a loop iteration on a file line prints: the diagnostic of the else
\* branch only.  (PrintedAlways is the faulty variant that prints it in
\* both branches.)
NotFoundMessage(path) == [kind |-> "File not found", path |-> path]
CompleteMessage == [kind |-> "Inventory processing complete.", path |-> <<>>]
PrintedAlways(found, path) == <<NotFoundMessage(path)>>
Printed(found, path) == IF found THEN <<>> ELSE <<NotFoundMessage(path)>>

\* f.readlines(): split after every newline, keeping it.
RECURSIVE ReadLines(_)
ReadLines(text) ==
  IF text = <<>> THEN <<>>
  ELSE LET nls == {k \in 1..Len(text) : text[k] = NL}
           cut == IF nls = {} THEN Len(text) ELSE Min(nls)
       IN  <<SubSeq(text, 1, cut)>> \o ReadLines(SubSeq(text, cut + 1, Len(text)))

\* f.writelines(): the concatenation of the lines.
RECURSIVE Concat(_)
Concat(ls) == IF ls = <<>> THEN <<>> ELSE Head(ls) \o Concat(Tail(ls))

\* ---------------------------------------------------------------- inputs
Spaces(n) == [k \in 1..n |-> " "]

\* The bullets a generated document is made of, without indentation and
\* newline:  - **d/**   |  - **e** EM x  |  - a EM a  |  - - EM x  |
\*           - /a EM x  |  - a
Bodies ==
  { <<"-", " ", "*", "*", "d", "/", "*", "*">>,
    <<"-", " ", "*", "*", "e", "*", "*", " ", EM, " ", "x">>,
    <<"-", " ", "a", " ", EM, " ", "a">>,
    <<"-", " ", "-", " ", EM, " ", "x">>,
    <<"-", " ", "/", "a", " ", EM, " ", "x">>,
    <<"-", " ", "a">> }

LineSet == {Spaces(n) \o b : n \in 0..MaxIndent, b \in Bodies}

Documents == UNION {[1..n -> LineSet] : n \in 0..MaxLines}

\* The text of a document: every line ends with a newline, except the
\* last one when the file has no final newline.
Text(doc, final_newline) ==
  Concat([k \in 1..Len(doc) |->
            IF k < Len(doc) \/ final_newline THEN doc[k] \o <<NL>> ELSE doc[k]])

\* ----------------------------------------------------------------- state
VARIABLES
  disk,        \* content of the file at inventory_path
  fs_present,  \* paths os.path.exists has answered True for
  fs_absent,   \* paths os.path.exists has answered False for
  lines,       \* lines
  new_lines,   \* new_lines
  dir_stack,   \* dir_stack: (indent, dirname) pairs, bottom first
  stack_line,  \* history: the index of the line that pushed each entry
  idx,         \* index in lines of the next line of the for loop
  full_path,   \* full_path: the path of the latest existence check
  stdout,      \* what print() has written, in order
  pc,          \* position of the script
  run,         \* 1 in the first execution, 2 in a re-execution
  first_run    \* lines and new_lines of the first execution, once it is over

vars == <<disk, fs_present, fs_absent, lines, new_lines, dir_stack, stack_line,
          idx, full_path, stdout, pc, run, first_run>>

Init ==
  /\ \E doc \in Documents, final_newline \in BOOLEAN :
       disk = Text(doc, final_newline)
  /\ fs_present = {}
  /\ fs_absent = {}
  /\ lines = <<>>
  /\ new_lines = <<>>
  /\ dir_stack = <<>>
  /\ stack_line = <<>>
  /\ idx = 1
  /\ full_path = <<>>
  /\ stdout = <<>>
  /\ pc = "read"
  /\ run = 1
  /\ first_run = [lines |-> <<>>, new_lines |-> <<>>]

\* with open(inventory_path, 'r') as f: lines = f.readlines()
ReadDocument ==
  /\ pc = "read"
  /\ lines' = ReadLines(disk)
  /\ pc' = "loop"
  /\ UNCHANGED <<disk, fs_present, fs_absent, new_lines, dir_stack, stack_line,
                 idx, full_path, stdout, run, first_run>>

\* The open or the read raises: the script ends with the traceback.
ReadFails ==
  /\ pc = "read"
  /\ pc' = "read_error"
  /\ UNCHANGED <<disk, fs_present, fs_absent, lines, new_lines, dir_stack,
                 stack_line, idx, full_path, stdout, run, first_run>>

InLoop == pc = "loop" /\ idx <= Len(lines)

\* One iteration on a directory line.
ProcessDirLine ==
  /\ InLoop
  /\ LineClass(lines[idx]) = "dir"
  /\ LET line    == lines[idx]
         indent  == Indent(line)
         dirname == RStripSlash(dir_match(Strip(line)).group1)
         keep    == Keep(dir_stack, indent)
     IN  /\ dir_stack' = Append(SubSeq(dir_stack, 1, keep), <<indent, dirname>>)
         /\ stack_line' = Append(SubSeq(stack_line, 1, keep), idx)
         /\ new_lines' = Append(new_lines, line)
  /\ idx' = idx + 1
  /\ UNCHANGED <<disk, fs_present, fs_absent, lines, full_path, stdout, pc,
                 run, first_run>>

\* One iteration on a file line whose candidate exists.
ProcessFileLineFound ==
  /\ InLoop
  /\ LineClass(lines[idx]) = "file"
  /\ LET line     == lines[idx]
         filename == file_match(Strip(line)).group1
         keep     == Keep(dir_stack, Indent(line))
         stack    == SubSeq(dir_stack, 1, keep)
         path     == FullPath(stack, filename)
     IN  /\ path \notin fs_absent
         /\ fs_present' = fs_present \cup {path}
         /\ dir_stack' = stack
         /\ stack_line' = SubSeq(stack_line, 1, keep)
         /\ full_path' = path
         /\ stdout' = stdout \o Printed(TRUE, path)
         /\ new_lines' = Append(new_lines,
                                NewLine(line, filename, RelativePath(stack, filename)))
  /\ idx' = idx + 1
  /\ UNCHANGED <<disk, fs_absent, lines, pc, run, first_run>>

\* One iteration on a file line whose candidate does not exist.
ProcessFileLineNotFound ==
  /\ InLoop
  /\ LineClass(lines[idx]) = "file"
  /\ LET line     == lines[idx]
         filename == file_match(Strip(line)).group1
         keep     == Keep(dir_stack, Indent(line))
         stack    == SubSeq(dir_stack, 1, keep)
         path     == FullPath(stack, filename)
     IN  /\ path \notin fs_present
         /\ fs_absent' = fs_absent \cup {path}
         /\ dir_stack' = stack
         /\ stack_line' = SubSeq(stack_line, 1, keep)
         /\ full_path' = path
         /\ stdout' = stdout \o Printed(FALSE, path)
         /\ new_lines' = Append(new_lines, KeptLine(line))
  /\ idx' = idx + 1
  /\ UNCHANGED <<disk, fs_present, lines, pc, run, first_run>>

\* One iteration on any other line.
ProcessOtherLine ==
  /\ InLoop
  /\ LineClass(lines[idx]) = "other"
  /\ new_lines' = Append(new_lines, lines[idx])
  /\ idx' = idx + 1
  /\ UNCHANGED <<disk, fs_present, fs_absent, lines, dir_stack, stack_line,
                 full_path, stdout, pc, run, first_run>>

LoopOver == pc = "loop" /\ idx > Len(lines)

\* open(inventory_path, 'w'): the file is truncated as it is opened.
OpenForWrite ==
  /\ LoopOver
  /\ disk' = <<>>
  /\ pc' = "write"
  /\ UNCHANGED <<fs_present, fs_absent, lines, new_lines, dir_stack, stack_line,
                 idx, full_path, stdout, run, first_run>>

\* The open raises: nothing is touched.
OpenForWriteFails ==
  /\ LoopOver
  /\ pc' = "write_error"
  /\ UNCHANGED <<disk, fs_present, fs_absent, lines, new_lines, dir_stack,
                 stack_line, idx, full_path, stdout, run, first_run>>

\* f.writelines(new_lines) and the close of the with block.
WriteLines ==
  /\ pc = "write"
  /\ disk' = Concat(new_lines)
  /\ pc' = "written"
  /\ UNCHANGED <<fs_present, fs_absent, lines, new_lines, dir_stack, stack_line,
                 idx, full_path, stdout, run, first_run>>

\* The write or the close raises after some of the lines reached the file.
WriteFails ==
  /\ pc = "write"
  /\ \E k \in 0..Len(new_lines) : disk' = Concat(SubSeq(new_lines, 1, k))
  /\ pc' = "write_error"
  /\ UNCHANGED <<fs_present, fs_absent, lines, new_lines, dir_stack, stack_line,
                 idx, full_path, stdout, run, first_run>>

\* print("Inventory processing complete.")
PrintComplete ==
  /\ pc = "written"
  /\ stdout' = Append(stdout, CompleteMessage)
  /\ pc' = "done"
  /\ UNCHANGED <<disk, fs_present, fs_absent, lines, new_lines, dir_stack,
                 stack_line, idx, full_path, run, first_run>>

\* The script is started again on the document it has just written; the
\* filesystem is as the first execution found it.
RunAgain ==
  /\ pc = "done"
  /\ run = 1
  /\ run' = 2
  /\ first_run' = [lines |-> lines, new_lines |-> new_lines]
  /\ lines' = <<>>
  /\ new_lines' = <<>>
  /\ dir_stack' = <<>>
  /\ stack_line' = <<>>
  /\ idx' = 1
  /\ full_path' = <<>>
  /\ stdout' = <<>>
  /\ pc' = "read"
  /\ UNCHANGED <<disk, fs_present, fs_absent>>

Next ==
  \/ ReadDocument
  \/ ReadFails
  \/ ProcessDirLine
  \/ ProcessFileLineFound
  \/ ProcessFileLineNotFound
  \/ ProcessOtherLine
  \/ OpenForWrite
  \/ OpenForWriteFails
  \/ WriteLines
  \/ WriteFails
  \/ PrintComplete

Spec == Init /\ [][Next]_vars

NextTwice == Next \/ RunAgain

SpecTwice == Init /\ [][NextTwice]_vars

\* ---------------------------------------------------------------- claims
\* The classification of a line, read off the two patterns.
IsDirLine(line) == dir_match(Strip(line)).ok
IsFileLine(line) == ~IsDirLine(line) /\ file_match(Strip(line)).ok
IsOtherLine(line) == ~dir_match(Strip(line)).ok /\ ~file_match(Strip(line)).ok
Token(line) == file_match(Strip(line)).group1
DirName(line) == RStripSlash(dir_match(Strip(line)).group1)

\* The lines the loop has been through, and the latest of them.
Processed == 1..(idx - 1)
Last == idx - 1
Rewritten(k) == new_lines[k] # lines[k]
OnStack(k) == \E j \in 1..Len(stack_line) : stack_line[j] = k
Between(p, r) == (p + 1)..(r - 1)

\* C2: the output has one line per input line, in order, and every line
\* that is not a file line (every directory line, also one of file shape,
\* and every other line) is emitted as it was read; the same is true of the
\* document that is written back.
C2_NonFileLinesUnchanged ==
  /\ Len(new_lines) = idx - 1
  /\ \A k \in Processed : ~IsFileLine(lines[k]) => new_lines[k] = lines[k]
  /\ pc \in {"written", "done"} =>
       LET out == ReadLines(disk)
       IN  /\ Len(out) = Len(lines)
           /\ \A k \in 1..Len(lines) : ~IsFileLine(lines[k]) => out[k] = lines[k]

\* A finished run over a directory line of file shape, an other line and a
\* file line that was rewritten.
C2_Witness ==
  /\ pc = "done"
  /\ \E k \in Processed : IsDirLine(lines[k]) /\ file_match(Strip(lines[k])).ok
  /\ \E k \in Processed : IsOtherLine(lines[k])
  /\ \E k \in Processed : IsFileLine(lines[k]) /\ Rewritten(k)

\* C9: the indent levels of dir_stack increase strictly from bottom to top.
C9_StackStrictlyIncreasing ==
  \A k \in 1..(Len(dir_stack) - 1) : dir_stack[k][1] < dir_stack[k + 1][1]

\* The third line has replaced the second line's entry above the first's.
C9_Witness ==
  /\ Len(dir_stack) = 2
  /\ stack_line = <<1, 3>>
  /\ IsDirLine(lines[2])
  /\ Indent(lines[2]) = Indent(lines[3])

\* C10 as stated: after a line of any class with indent i, every entry but
\* the one pushed for that line has an indent level below i.
C10_Original ==
  idx > 1 =>
    LET line == lines[Last]
        n    == IF IsDirLine(line) THEN Len(dir_stack) - 1 ELSE Len(dir_stack)
    IN  \A k \in 1..n : dir_stack[k][1] < Indent(line)

\* C10 amended: after a directory line or a file line with indent i, every
\* entry but the one pushed for that line has an indent level below i (an
\* other line pops nothing).
C10_AncestorsAfterDirOrFile ==
  idx > 1 /\ ~IsOtherLine(lines[Last]) =>
    LET line == lines[Last]
        n    == IF IsDirLine(line) THEN Len(dir_stack) - 1 ELSE Len(dir_stack)
    IN  \A k \in 1..n : dir_stack[k][1] < Indent(line)

\* A file line has popped the entry of a directory of its own indent and
\* kept the entry of a shallower one.
C10_Witness ==
  /\ idx = 4
  /\ IsDirLine(lines[1]) /\ IsDirLine(lines[2]) /\ IsFileLine(lines[3])
  /\ Indent(lines[1]) < Indent(lines[2])
  /\ Indent(lines[2]) = Indent(lines[3])
  /\ stack_line = <<1>>

\* Directory lines p < q of one indent with a file line r after q and no
\* directory line between q and r.
Siblings(p, q, r) ==
  /\ p \in Processed /\ q \in Processed /\ p < q /\ q < r
  /\ IsDirLine(lines[p]) /\ IsDirLine(lines[q])
  /\ Indent(lines[p]) = Indent(lines[q])
  /\ IsFileLine(lines[r])
  /\ \A m \in Between(q, r) : ~IsDirLine(lines[m])

\* The second of two directory lines of one indent pops the first's entry.
SiblingPopped ==
  idx > 1 /\ IsDirLine(lines[Last]) =>
    /\ stack_line[Len(stack_line)] = Last
    /\ \A p \in Processed :
         p < Last /\ IsDirLine(lines[p]) /\ Indent(lines[p]) = Indent(lines[Last])
           => ~OnStack(p)

OpenAbove(p, r) ==
  /\ p \in Processed /\ p < r
  /\ IsDirLine(lines[p]) /\ IsFileLine(lines[r])
  /\ Indent(lines[r]) > Indent(lines[p])
  /\ \A m \in Between(p, r) :
       IsDirLine(lines[m]) => Indent(lines[m]) > Indent(lines[p])

\* The entry of directory line p is on the stack, with p's indent and name.
EntryOf(p) ==
  \E j \in 1..Len(dir_stack) :
    /\ stack_line[j] = p
    /\ dir_stack[j] = <<Indent(lines[p]), DirName(lines[p])>>

\* C8 as stated: whatever lines lie between them, file lines included, the
\* directory's entry is on the stack when the file line is resolved.
C8_Original ==
  idx > 1 => \A p \in Processed : OpenAbove(p, Last) => EntryOf(p)

\* C8 amended: the same, provided no file line of the directory's indent or
\* less lies between them (such a file line pops the entry).
C8_DirectoryStillOpen ==
  idx > 1 =>
    \A p \in Processed :
      /\ OpenAbove(p, Last)
      /\ \A m \in Between(p, Last) :
           IsFileLine(lines[m]) => Indent(lines[m]) > Indent(lines[p])
      => EntryOf(p)

\* A directory line, a deeper file line, then a file line between the two
\* in depth: the directory's entry is still there.
C8_Witness ==
  /\ idx = 4
  /\ OpenAbove(1, 3)
  /\ IsFileLine(lines[2])
  /\ Indent(lines[2]) > Indent(lines[3])
  /\ EntryOf(1)

\* Whether sub occurs in s at 0-based offset at.
OccursAt(s, sub, at) ==
  at >= 0 /\ at + Len(sub) <= Len(s) /\ SubSeq(s, at + 1, at + Len(sub)) = sub
Occurs(s, sub) == \E at \in 0..Len(s) : OccursAt(s, sub, at)

\* The components joined with one "/" between every two of them.
RECURSIVE SlashJoin(_)
SlashJoin(parts) ==
  IF Len(parts) = 1 THEN Head(parts)
  ELSE Head(parts) \o <<"/">> \o SlashJoin(Tail(parts))

\* C1 as stated: for a file line, with the stack as the pop step left it,
\* the path checked is root, the stack's directory names (bottom first) and
\* the filename token joined by separators; the line is rewritten exactly
\* when that path exists; and the link is [filename](target), the target
\* being the directory names and the filename joined by "/".
C1_Original ==
  idx > 1 /\ IsFileLine(lines[Last]) =>
    LET filename  == Token(lines[Last])
        names     == PathParts(dir_stack)
        candidate == SlashJoin(<<root_dir>> \o names \o <<filename>>)
        target    == SlashJoin(names \o <<filename>>)
    IN  /\ full_path = candidate
        /\ Rewritten(Last) <=> candidate \in fs_present
        /\ Rewritten(Last) =>
             Occurs(new_lines[Last],
                    <<"[">> \o filename \o <<"]", "(">> \o target \o <<")">>)

\* The diagnostics printed so far.
Diagnostics == SelectSeq(stdout, LAMBDA m : m.kind = "File not found")

\* C3: a file line whose candidate does not exist is emitted as it was read
\* and gets one "File not found" diagnostic, naming the path checked; no
\* other line gets one; the loop goes on to the next line, so that the run
\* stops early only on an I/O error of the read (before the first line) or
\* of the write (after the last line), and a run that ends normally has
\* written the document and printed the completion message last.
C3_NotFoundIsNotFatal ==
  /\ idx > 1 /\ IsFileLine(lines[Last]) /\ full_path \in fs_absent =>
       /\ new_lines[Last] = lines[Last]
       /\ Diagnostics # <<>>
       /\ Diagnostics[Len(Diagnostics)] = NotFoundMessage(full_path)
  /\ idx > 1 /\ IsFileLine(lines[Last]) /\ full_path \in fs_present =>
       Rewritten(Last)
  /\ Len(Diagnostics) =
       Cardinality({k \in Processed : IsFileLine(lines[k]) /\ ~Rewritten(k)})
  /\ pc \in {"write", "written", "done", "write_error"} => idx = Len(lines) + 1
  /\ pc = "read_error" => idx = 1
  /\ fs_present \cap fs_absent = {}
  /\ pc = "done" =>
       /\ disk = Concat(new_lines)
       /\ stdout = Diagnostics \o <<CompleteMessage>>

\* A finished run with a file line that was not found, followed by a file
\* line that was found.
C3_Witness ==
  /\ pc = "done"
  /\ \E k \in Processed :
       /\ IsFileLine(lines[k]) /\ ~Rewritten(k)
       /\ k < Last /\ IsFileLine(lines[Last]) /\ Rewritten(Last)
  /\ Len(Diagnostics) = 1

\* The 0-based offset of the filename token in the raw line: the leading
\* whitespace, the bullet marker and the whitespace after it come first.
TokenStart(line) == Indent(line) + RunEndWS(Strip(line), 2)

\* Whether the token's text occurs in the line before the token itself.
OccursEarlier(line) ==
  \E at \in 0..(TokenStart(line) - 1) : OccursAt(line, Token(line), at)
EarliestOccurrence(line) ==
  Min({at \in 0..TokenStart(line) : OccursAt(line, Token(line), at)})

\* out is line with the text of token at offset at replaced by a link
\* [token](...), everything before and after it kept.
ReplacedAt(line, out, at, token) ==
  LET before == SubSeq(line, 1, at)
      after  == SubSeq(line, at + Len(token) + 1, Len(line))
      open   == <<"[">> \o token \o <<"]", "(">>
  IN  /\ Len(out) >= Len(before) + Len(open) + 1 + Len(after)
      /\ SubSeq(out, 1, at) = before
      /\ SubSeq(out, at + 1, at + Len(open)) = open
      /\ out[Len(out) - Len(after)] = ")"
      /\ SubSeq(out, Len(out) - Len(after) + 1, Len(out)) = after

Converted(k) ==
  k \in 1..Len(first_run.lines) /\ first_run.new_lines[k] # first_run.lines[k]

\* C5 as stated: the second execution leaves every line the first one
\* converted unchanged, and its output equals the first one's.
C5_Original ==
  run = 2 =>
    /\ \A k \in Processed : Converted(k) => new_lines[k] = lines[k]
    /\ pc = "done" => new_lines = first_run.new_lines

\* C5 amended: the second execution reads back what the first one wrote,
\* and it leaves a line the first one converted unchanged unless it takes
\* that line for a file line again and the path built from the link-form
\* token [filename](target) exists; then it rewrites the line once more.
C5_SecondRun ==
  run = 2 /\ pc \notin {"read", "read_error"} =>
    /\ lines = first_run.new_lines
    /\ idx > 1 /\ Converted(Last) =>
         (Rewritten(Last) <=>
            /\ IsFileLine(lines[Last])
            /\ FullPath(dir_stack, Token(lines[Last])) \in fs_present)

\* The second execution has taken a converted line for a file line, has not
\* found its path and has finished with the output of the first execution.
C5_Witness ==
  /\ run = 2
  /\ pc = "done"
  /\ Converted(Last) /\ IsFileLine(lines[Last]) /\ ~Rewritten(Last)
  /\ new_lines = first_run.new_lines

\* C6 as stated: the document on disk is always its complete original
\* content or the complete rewritten content; the write starts only after
\* every line has been processed; a failed read stops the run before any
\* line is processed; the completion message is printed exactly once, and
\* only after the whole document has been written.
C6_Original ==
  /\ pc \notin {"read", "read_error"} =>
       \/ disk = Concat(lines)
       \/ idx = Len(lines) + 1 /\ disk = Concat(new_lines)
  /\ pc \in {"write", "written", "done", "write_error"} => idx = Len(lines) + 1
  /\ pc = "read_error" => lines = <<>> /\ new_lines = <<>> /\ idx = 1
  /\ Len(SelectSeq(stdout, LAMBDA m : m = CompleteMessage))
       = IF pc = "done" THEN 1 ELSE 0
  /\ pc = "done" => disk = Concat(new_lines)

====
